---- MODULE Spec2Model ----
(***************************************************************************)
(* Model of the AquaKart client-side stores:                               *)
(*   src/store/cartStore.ts       useCartStore                             *)
(*   src/store/favoritesStore.ts  useFavoritesStore                        *)
(*                                                                         *)
(* Both stores keep a plain JavaScript object `items` used as a map.  A    *)
(* plain object is modelled as a TLA+ function whose DOMAIN is the set of  *)
(* its own keys.  A property read `items[key]` on a plain object also      *)
(* sees the properties inherited from Object.prototype ("constructor",     *)
(* "toString", ...), and the stores test the result of that read for       *)
(* truthiness, so both facts are part of the model.                        *)
(***************************************************************************)
EXTENDS Integers, FiniteSets, Sequences, TLC

(* ---------------------------------------------------------------- bounds *)

\* Largest quantity the model lets incrementItem reach (the code has no cap).
MaxQuantity == 2

\* Largest reading of the clock (Date.now(), counted from the first reading).
MaxClock == 2

\* Longest list a catalog response carries.
MaxListLen == 2

\* Most cart calls the handlers make between two renders.
MaxBurst == 2

\* Most catalog loads the Shop screen starts while it is mounted.
MaxLoads == 3

\* Longest address list the profile form is taken to.
MaxAddresses == 2

\* Most handleSendOtp calls awaiting their timer at once.
MaxSends == 2

(* ------------------------------------------------------------ JS values *)

\* Keys the callers pass.  "constructor" is a property every plain object
\* inherits from Object.prototype; the others are ordinary product keys.
Keys == {"sku-1", "sku-2", "constructor"}

\* Property names that `items[key]` finds on Object.prototype when `key` is
\* not an own property of `items`.
ObjectPrototypeKeys == {"constructor"}

\* Product records; the stores treat them as opaque values.
Products == {"productA", "productB"}

\* A payload that is not a record: "null" stands for any falsy value (null,
\* undefined, 0, "" or false).  The stores do not validate the payload.
FalsyProducts == {"null"}

Payloads == Products \cup FalsyProducts

\* The value of a property that is missing.
Undefined == "undefined"

\* A JavaScript number: an integer, or NaN.
Num(n) == [nan |-> FALSE, n |-> n]

NaN == [nan |-> TRUE, n |-> 0]

\* x + 1 and x - 1 on JavaScript numbers (NaN is absorbing).
Plus1(x) == IF x.nan THEN NaN ELSE Num(x.n + 1)

Minus1(x) == IF x.nan THEN NaN ELSE Num(x.n - 1)

\* Variant of LeqZero that tests x < 0.
LessThanZero(x) == (~x.nan) /\ x.n < 0

\* x <= 0 on JavaScript numbers (every comparison with NaN is false).
LeqZero(x) == (~x.nan) /\ x.n <= 0

\* The empty object {}.
EmptyItems == [k \in {} |-> Undefined]

\* Object.prototype.hasOwnProperty.call(items, key)
HasOwn(items, key) == key \in DOMAIN items

\* const { [key]: _removed, ...rest } = items
Rest(items, key) == [k \in (DOMAIN items) \ {key} |-> items[k]]

\* { ...items, [key]: value }
Put(items, key, value) ==
    [k \in (DOMAIN items) \cup {key} |-> IF k = key THEN value ELSE items[k]]

(* ------------------------------------------------------------ cart store *)

\* Variant of StoreState for an update computed from the state the calling
\* component rendered with, set({ items: f(captured.items) }).
CapturedState(captured, current) == captured

\* set((state) => ...): the updater is handed the store's current state,
\* whatever state the calling component captured when it rendered.
StoreState(captured, current) == current

\* Boolean(state.items[key]) in the cart store: own entries are objects
\* (truthy); an inherited Object.prototype member is a function (truthy).
CartEntryTruthy(items, key) ==
    HasOwn(items, key) \/ key \in ObjectPrototypeKeys

\* Variant of QuantityOrZero that forgets the stored quantity.
QuantityAlwaysZero(items, key) == Num(0)

\* state.items[key]?.quantity ?? 0
\* (an inherited member has no `quantity`, so the read gives undefined -> 0)
QuantityOrZero(items, key) ==
    IF HasOwn(items, key) THEN items[key].quantity ELSE Num(0)

\* entry.quantity for entry = state.items[key], entry truthy
\* (undefined - 1 is NaN when the entry is an inherited member)
EntryQuantity(items, key) ==
    IF HasOwn(items, key) THEN items[key].quantity ELSE NaN

\* { ...entry } : the own enumerable properties of the entry; an inherited
\* function member has none, so `product` is missing.
EntryProduct(items, key) ==
    IF HasOwn(items, key) THEN items[key].product ELSE Undefined

\* Variant of incrementItem that spreads the old entry and so keeps the
\* product stored first.
incrementItemKeepingProduct(items, key, product) ==
    Put(items, key,
        [product  |-> IF HasOwn(items, key) THEN items[key].product
                      ELSE product,
         quantity |-> Plus1(QuantityOrZero(items, key))])

incrementItem(items, key, product) ==
    Put(items, key,
        [product |-> product, quantity |-> Plus1(QuantityOrZero(items, key))])

decrementItem(items, key) ==
    IF ~CartEntryTruthy(items, key)
    THEN items
    ELSE LET nextQuantity == Minus1(EntryQuantity(items, key))
         IN  IF LeqZero(nextQuantity)
             THEN Rest(items, key)
             ELSE Put(items, key,
                      [product  |-> EntryProduct(items, key),
                       quantity |-> nextQuantity])

\* Variant of removeItem that takes one unit off instead of deleting.
removeItemOneUnit(items, key) == decrementItem(items, key)

removeItem(items, key) ==
    IF ~CartEntryTruthy(items, key) THEN items ELSE Rest(items, key)

\* Variant of clear that merges an empty update, set({}), which leaves the
\* items as they are.
clearMergingNothing(items) == items

\* set({ items: {} }): the new items do not depend on the old ones.
clear(items) == EmptyItems

\* sum + entry.quantity on JavaScript numbers.
Add(x, y) == IF x.nan \/ y.nan THEN NaN ELSE Num(x.n + y.n)

\* Object.values(items).reduce((sum, entry) => sum + entry.quantity, 0)
\* over the entries under the keys `keys` (the order of the entries does not
\* change a sum of integers and NaN).
RECURSIVE SumQuantities(_, _)
SumQuantities(items, keys) ==
    IF keys = {} THEN Num(0)
    ELSE LET k == CHOOSE x \in keys : TRUE
         IN  Add(SumQuantities(items, keys \ {k}), items[k].quantity)

selectCartCount(items) == SumQuantities(items, DOMAIN items)

\* makeSelectIsInCart(key)(state) = Boolean(state.items[key])
makeSelectIsInCart(items, key) == CartEntryTruthy(items, key)

\* makeSelectQuantity(key)(state) = state.items[key]?.quantity ?? 0
makeSelectQuantity(items, key) == QuantityOrZero(items, key)

(* ------------------------------------------------------- favorites store *)

\* Boolean(state.items[key]) in the favorites store: the stored value is the
\* product payload itself.
FavoriteTruthy(items, key) ==
    IF HasOwn(items, key)
    THEN items[key] \notin FalsyProducts
    ELSE key \in ObjectPrototypeKeys

toggleItem(items, key, product) ==
    IF FavoriteTruthy(items, key)
    THEN Rest(items, key)
    ELSE Put(items, key, product)

favoritesRemoveItem(items, key) ==
    IF ~FavoriteTruthy(items, key) THEN items ELSE Rest(items, key)

\* set({ items: {} })
favoritesClear(items) == EmptyItems

\* selectFavoriteCount(state) = Object.keys(state.items).length
selectFavoriteCount(items) == Cardinality(DOMAIN items)

\* makeSelectIsFavorite(key)(state) = Boolean(state.items[key])
makeSelectIsFavorite(items, key) == FavoriteTruthy(items, key)

(* ------------------------------------------------------ product accessors *)

\* JavaScript values of the identifier fields and of the fallback argument:
\* undefined, null, the numbers 0 and 1, and the strings "", "1", "sku-1".
\* (A list index may also be the number 2.)
IdValues == {"undefined", "null", "n:0", "n:1", "s:", "s:1", "s:sku-1"}

\* String(v)
String(v) ==
    CASE v = "undefined" -> "undefined"
      [] v = "null"      -> "null"
      [] v = "n:0"       -> "0"
      [] v = "n:1"       -> "1"
      [] v = "n:2"       -> "2"
      [] v = "s:"        -> ""
      [] v = "s:1"       -> "1"
      [] v = "s:sku-1"   -> "sku-1"

\* Variant of Nullish for `||`: every falsy value is skipped.
Falsy(v) == v \in {"undefined", "null", "n:0", "s:"}

\* The values `??` skips.
Nullish(v) == v \in {"undefined", "null"}

\* a ?? b
Coalesce(a, b) == IF Nullish(a) THEN b ELSE a

\* What a call gives when it reads a property of null or undefined.
TypeError == "TypeError"

\* A list element handed to the accessors: null (or undefined), or an object
\* with its identifier fields.
\* product.photos: missing (or no array), or an array of entries.
NoPhotos == [isArray |-> FALSE, entries |-> <<>>]

Photos(entries) == [isArray |-> TRUE, entries |-> entries]

\* An object none of whose fields is set: {}.
BlankProduct ==
    [kind |-> "object", id |-> "undefined", productId |-> "undefined",
     product_id |-> "undefined", sku |-> "undefined",
     name |-> "undefined", productName |-> "undefined", title |-> "undefined",
     price |-> "undefined", sellingPrice |-> "undefined", mrp |-> "undefined",
     description |-> "undefined", shortDescription |-> "undefined",
     imageUrl |-> "undefined", image |-> "undefined",
     thumbnail |-> "undefined", photos |-> NoPhotos]

NullProduct == [BlankProduct EXCEPT !.kind = "null"]

ProductObject(id, productId, product_id, sku) ==
    [BlankProduct EXCEPT !.id = id, !.productId = productId,
                         !.product_id = product_id, !.sku = sku]

\* `product-${Date.now()}`
TimeKey(now) == "product-" \o ToString(now)

\* getProductKey(product, fallback) called when the clock reads `now`.
getProductKey(product, fallback, now) ==
    IF product.kind = "null" THEN TypeError
    ELSE LET found == Coalesce(product.id,
                      Coalesce(product.productId,
                      Coalesce(product.product_id,
                      Coalesce(product.sku, fallback))))
         IN  IF Nullish(found) THEN TimeKey(now) ELSE String(found)

\* Variant of ShopRenderItemKey that leaves the list index out.
ShopRenderItemKeyNoIndex(product, index, now) ==
    getProductKey(product, "undefined", now)

\* Shop keyExtractor: getProductKey(item as Product, index)
ShopKeyExtractor(product, index, now) == getProductKey(product, index, now)

\* Shop renderItem: const productKey = getProductKey(product, index)
ShopRenderItemKey(product, index, now) == getProductKey(product, index, now)

\* The accessors that raise on `product`: each of them starts by reading a
\* property of `product` (product.id, product.name, typeof product.price,
\* typeof product.description, product.photos).
getProductTitleRaises(product) == product.kind = "null"

getProductPriceRaises(product) == product.kind = "null"

getProductDescriptionRaises(product) == product.kind = "null"

getProductImagesRaises(product) == product.kind = "null"

RaisingAccessors(product, index) ==
    (IF getProductKey(product, index, 0) = TypeError
        THEN {"getProductKey"} ELSE {})
    \cup (IF getProductTitleRaises(product)
             THEN {"getProductTitle"} ELSE {})
    \cup (IF getProductPriceRaises(product)
             THEN {"getProductPrice"} ELSE {})
    \cup (IF getProductDescriptionRaises(product)
             THEN {"getProductDescription"} ELSE {})
    \cup (IF getProductImagesRaises(product)
             THEN {"getProductImages"} ELSE {})

(* ------------------------------------------------ descriptive accessors *)

\* typeof v === 'number' and typeof v === 'string' on the values used here.
IsNumber(v) == v \in {"n:0", "n:1", "n:2"}

IsString(v) ==
    v \in {"s:", "s:1", "s:sku-1", "s:N/A", "s:Pump", "s:Filter", "s:  ",
           "s: soft water ", "s:soft water", "s:pure"}

\* Boolean(v): false for undefined, null, false, 0 and "".
Truthy(v) == v \notin {"undefined", "null", "false", "n:0", "s:"}

\* a || b
Or(a, b) == IF Truthy(a) THEN a ELSE b

\* v.trim() for a string v
Trim(v) ==
    CASE v = "s:  "            -> "s:"
      [] v = "s: soft water " -> "s:soft water"
      [] OTHER                -> v

\* `Product ${index + 1}`
TitlePlaceholder(index) == "s:Product " \o ToString(index + 1)

getProductTitle(product, index) ==
    IF product.kind = "null" THEN TypeError
    ELSE Coalesce(product.name,
         Coalesce(product.productName,
         Coalesce(product.title, TitlePlaceholder(index))))

\* Variant of getProductPrice that looks at sellingPrice first.
getProductPriceSellingFirst(product) ==
    IF product.kind = "null" THEN TypeError
    ELSE IF IsNumber(product.sellingPrice) THEN product.sellingPrice
    ELSE IF IsNumber(product.price) THEN product.price
    ELSE IF IsNumber(product.mrp) THEN product.mrp
    ELSE "null"

getProductPrice(product) ==
    IF product.kind = "null" THEN TypeError
    ELSE IF IsNumber(product.price) THEN product.price
    ELSE IF IsNumber(product.sellingPrice) THEN product.sellingPrice
    ELSE IF IsNumber(product.mrp) THEN product.mrp
    ELSE "null"

DescriptionPlaceholder == "s:No description provided."

\* Variant of getProductDescription that does not trim.
getProductDescriptionUntrimmed(product) ==
    IF product.kind = "null" THEN TypeError
    ELSE Or(IF IsString(product.description)
               THEN product.description ELSE "false",
         Or(IF IsString(product.shortDescription)
               THEN product.shortDescription ELSE "false",
            DescriptionPlaceholder))

getProductDescription(product) ==
    IF product.kind = "null" THEN TypeError
    ELSE Or(IF IsString(product.description)
               THEN Trim(product.description) ELSE "false",
         Or(IF IsString(product.shortDescription)
               THEN Trim(product.shortDescription) ELSE "false",
            DescriptionPlaceholder))

\* An entry of product.photos: null (or undefined), or an object.
NullEntry ==
    [kind |-> "null", secure_url |-> "undefined", url |-> "undefined",
     image_url |-> "undefined"]

PhotoEntry(secure_url, url, image_url) ==
    [kind |-> "object", secure_url |-> secure_url, url |-> url,
     image_url |-> image_url]

getPrimaryProductImage(product) ==
    Coalesce(product.imageUrl,
    Coalesce(product.image,
    Coalesce(product.thumbnail, "null")))

\* The loop over product.photos: the urls pushed, in order.
RECURSIVE PhotoUrls(_)
PhotoUrls(entries) ==
    IF entries = <<>> THEN <<>>
    ELSE LET entry == Head(entries)
             candidate == Coalesce(entry.secure_url,
                          Coalesce(entry.url, entry.image_url))
         IN  IF entry.kind = "null" \/ ~Truthy(candidate)
             THEN PhotoUrls(Tail(entries))
             ELSE <<candidate>> \o PhotoUrls(Tail(entries))

getProductImages(product) ==
    IF product.kind = "null" THEN TypeError
    ELSE LET urls == IF product.photos.isArray
                     THEN PhotoUrls(product.photos.entries) ELSE <<>>
             fallback == getPrimaryProductImage(product)
         IN  IF urls = <<>> /\ Truthy(fallback) THEN <<fallback>> ELSE urls

(* ------------------------------------------------------ the profile form *)

\* An address of the form, with the fields the handlers look at.
Address(id, isDefault, line1, city) ==
    [id |-> id, isDefault |-> isDefault, line1 |-> line1, city |-> city]

\* initialState.user
InitialUser ==
    [firstName |-> "s:Anika",
     email     |-> "s:anika.s@aquakart.co",
     phone     |-> "s:+91 90876 54321",
     addresses |-> <<Address("addr-home", TRUE,
                             "s:32, Blue Lagoon Residences", "s:Chennai"),
                     Address("addr-office", FALSE,
                             "s:AquaKart Towers, 4th Floor", "s:Chennai")>>]

\* createFormState(user)
createFormState(user) == user

\* `addr-${Date.now()}`
AddressId(now) == "addr-" \o ToString(now)

\* prev.addresses.map((address) => ({ ...address, isDefault: address.id === id }))
handleSetDefaultAddress(addresses, id) ==
    [i \in DOMAIN addresses |->
        [addresses[i] EXCEPT !.isDefault = (addresses[i].id = id)]]

handleAddAddress(addresses, now) ==
    LET isFirstAddress == Len(addresses) = 0
        newAddress == Address(AddressId(now), isFirstAddress, "s:", "s:")
        added == Append(addresses, newAddress)
    IN  IF isFirstAddress
        THEN handleSetDefaultAddress(added, newAddress.id)
        ELSE added

handleRemoveAddress(addresses, id) ==
    LET Other(address) == address.id # id
        remaining == SelectSeq(addresses, Other)
    IN  IF Len(addresses) = 1 THEN addresses
        ELSE IF Len(remaining) = 0 THEN addresses
        ELSE IF ~\E i \in DOMAIN remaining : remaining[i].isDefault
        THEN [i \in DOMAIN remaining |->
                 [remaining[i] EXCEPT !.isDefault = (i = 1)]]
        ELSE remaining

\* prev.addresses.map((address) =>
\*     address.id === id ? { ...address, [key]: value } : address)
handleAddressChange(addresses, id, key, value) ==
    [i \in DOMAIN addresses |->
        IF addresses[i].id = id
        THEN [addresses[i] EXCEPT ![key] = value]
        ELSE addresses[i]]

\* The addresses of the form trimmed, those with neither line1 nor city
\* dropped.
NormalizedAddresses(addresses) ==
    LET trimmed == [i \in DOMAIN addresses |->
                       [addresses[i] EXCEPT !.line1 = Trim(addresses[i].line1),
                                            !.city = Trim(addresses[i].city)]]
        Kept(address) == address.line1 # "s:" \/ address.city # "s:"
    IN  SelectSeq(trimmed, Kept)

\* Variant of RequiredMissing that does not ask for a phone.
RequiredMissingButPhone(firstName, email, phone) ==
    ~Truthy(firstName) \/ ~Truthy(email)

\* !firstName || !email || !phone
RequiredMissing(firstName, email, phone) ==
    ~Truthy(firstName) \/ ~Truthy(email) \/ ~Truthy(phone)

RequiredError == "First name, email, and primary phone are required."

AddressError == "Add at least one address with street details."

\* normalizedAddresses.findIndex((address) => address.isDefault), 0 for -1;
\* counted from 1 here.
DefaultIndex(addresses) ==
    LET flagged == {i \in DOMAIN addresses : addresses[i].isDefault}
    IN  IF flagged = {} THEN 1
        ELSE CHOOSE i \in flagged : \A j \in flagged : i <= j

\* handleSubmit with the form `form`: the error it sets, and the user it
\* hands to onSave, if any.
handleSubmit(form) ==
    LET firstName == Trim(form.firstName)
        email == Trim(form.email)
        phone == Trim(form.phone)
        normalizedAddresses == NormalizedAddresses(form.addresses)
        defaultIndex == DefaultIndex(normalizedAddresses)
        preparedAddresses ==
            [i \in DOMAIN normalizedAddresses |->
                [normalizedAddresses[i] EXCEPT !.isDefault = (i = defaultIndex)]]
    IN  IF RequiredMissing(firstName, email, phone)
        THEN [saved |-> FALSE, error |-> RequiredError, payload |-> form]
        ELSE IF Len(normalizedAddresses) = 0
        THEN [saved |-> FALSE, error |-> AddressError, payload |-> form]
        ELSE [saved |-> TRUE, error |-> "null",
              payload |-> [firstName |-> firstName, email |-> email,
                           phone |-> phone, addresses |-> preparedAddresses]]

(* ------------------------------------------------------ catalog responses *)

\* A field of a response object: missing, present with a value that is no
\* array, or an array of elements.
NoField == [has |-> FALSE, isArray |-> FALSE, elems |-> <<>>]

OtherField == [has |-> TRUE, isArray |-> FALSE, elems |-> <<>>]

ArrayField(list) == [has |-> TRUE, isArray |-> TRUE, elems |-> list]

\* A response payload: a falsy value ("null"), another primitive such as a
\* non-empty string ("string"), an array, or an object with its `data` and
\* `items` fields.
Payload(type, elems, data, items) ==
    [type |-> type, elems |-> elems, data |-> data, items |-> items]

\* Variant of normalizeProducts that looks at `items` before `data`.
normalizeProductsItemsFirst(payload) ==
    IF payload.type = "null" THEN <<>>
    ELSE IF payload.type = "array" THEN payload.elems
    ELSE IF payload.type = "object" /\ payload.items.has
            /\ payload.items.isArray
    THEN payload.items.elems
    ELSE IF payload.type = "object" /\ payload.data.has
            /\ payload.data.isArray
    THEN payload.data.elems
    ELSE <<>>

normalizeProducts(payload) ==
    IF payload.type = "null" THEN <<>>
    ELSE IF payload.type = "array" THEN payload.elems
    ELSE IF payload.type = "object" /\ payload.data.has
            /\ payload.data.isArray
    THEN payload.data.elems
    ELSE IF payload.type = "object" /\ payload.items.has
            /\ payload.items.isArray
    THEN payload.items.elems
    ELSE <<>>

\* The number a list passes as `index` for its row i (rows count from 1
\* here, indexes from 0 in the code).
IndexValue(i) == CASE i = 1 -> "n:0" [] i = 2 -> "n:1" [] OTHER -> "n:2"

(* ------------------------------------------------ the Auth screen's timers *)

\* setResendSeconds(30)
ResendDelay == 30

\* await new Promise((r) => setTimeout(r, 700)), in milliseconds
SendDelay == 700

\* setInterval(() => setResendSeconds((s) => s - 1), 1000), in milliseconds
TickInterval == 1000

Emails == {"s:", "s:a@b", "s:a@b.co"}

Mobiles == {"s:", "s:98765", "s:9876543210"}

\* text.trim().includes('@') && text.trim().includes('.')
EmailOk(text) == text \in {"s:a@b", "s:a@b.co"} /\ text \in {"s:a@b.co"}

\* text.trim().length === 10
MobileOk(text) ==
    (CASE text = "s:" -> 0 [] text = "s:98765" -> 5 [] OTHER -> 10) = 10

EmailError == "s:Enter a valid email address"

MobileError == "s:Enter a valid 10-digit mobile number"

(* ----------------------------------------------------------------- state *)

VARIABLES
    cartItems,        \* useCartStore.getState().items
    favoriteItems,    \* useFavoritesStore.getState().items
    call,             \* the last store operation called, with its arguments
    cartBefore,       \* cart items when that call was made
    favoritesBefore,  \* favorites items when that call was made
    incrementRun,     \* per key: incrementItem calls since the key was last
                      \* absent; -1 once a decrementItem/removeItem of the
                      \* key or a clear interrupted the run
    argProduct,       \* getProductKey: the product argument
    argFallback,      \* getProductKey: the fallback argument
    caller,           \* "direct", or "shop" when the Shop list makes the
                      \* calls for one of its rows (fallback is the index)
    now,              \* the clock
    firstKey,         \* result of the first call and the clock at the call
    secondKey,        \* result of the second call and the clock at the call
    payload,          \* the response handed to normalizeProducts
    catalog,          \* the list normalizeProducts returned, once called
    accessed,         \* the element the accessors were last called on, and
                      \* the accessors that raised
    rendered,         \* cart items at the last render: what the handlers
                      \* of the screens captured
    issued,           \* the cart calls the handlers made since that render
    isAuthenticated,  \* App: useState(false)
    activeTab,        \* MainLayout: useState('home')
    shopProducts,     \* ShopPage: useState([]), as rows of key and product
    subject,          \* the product handed to the descriptive accessors
    subjectIndex,     \* the index handed to getProductTitle
    result,           \* the accessor called last and what it returned
    loading,          \* ShopPage: useState(true)
    error,            \* ShopPage: useState(null)
    refreshing,       \* ShopPage: useState(false)
    pendingLoads,     \* the loadProducts calls awaiting fetchProducts, by
                      \* number in start order (1 is the load on mount)
    started,          \* how many loadProducts calls were started
    outcomes,         \* per load: pending, fulfilled with a list, rejected
    loadEvent,        \* the last step of a load, and the products before it
    formState,        \* EditProfileDrawer: the form
    formError,        \* EditProfileDrawer: useState(null), the error shown
    user,             \* ProfilePage: state.user, the saved user
    isDrawerVisible,  \* ProfilePage: useState(false)
    submitEvent,      \* when the last step was a handleSubmit: the form and
                      \* the user then, and whether it saved
    mode,             \* AuthPage: useState('mobile')
    email,            \* AuthPage: useState('')
    mobile,           \* AuthPage: useState('')
    showOtpInput,     \* AuthPage: useState(false)
    isSending,        \* AuthPage: useState(false)
    authError,        \* AuthPage: useState(null), the error shown
    resendSeconds,    \* AuthPage: useState(0)
    sends             \* the handleSendOtp calls awaiting their timer, in
                      \* start order: for each, the interval ticks it saw

storeVars == <<cartItems, favoriteItems, call, cartBefore, favoritesBefore,
               incrementRun>>

keyVars == <<argProduct, argFallback, caller, now, firstKey, secondKey>>

catalogVars == <<payload, catalog, accessed>>

handlerVars == <<rendered, issued>>

appVars == <<isAuthenticated, activeTab, shopProducts>>

accessorVars == <<subject, subjectIndex, result>>

loadVars == <<loading, error, refreshing, pendingLoads, started, outcomes,
              loadEvent>>

profileVars == <<formState, formError, user, isDrawerVisible, submitEvent>>

authVars == <<mode, email, mobile, showOtpInput, isSending, authError,
              resendSeconds, sends>>

pageVars == <<accessorVars, loadVars, profileVars, authVars>>

vars == <<storeVars, keyVars, catalogVars, handlerVars, appVars, pageVars>>

NoCall == [store |-> "none", op |-> "none", key |-> "none",
           product |-> Undefined]

StoreInit ==
    /\ cartItems = EmptyItems
    /\ favoriteItems = EmptyItems
    /\ call = NoCall
    /\ cartBefore = EmptyItems
    /\ favoritesBefore = EmptyItems
    /\ incrementRun = [k \in Keys |-> 0]

NoKey == [key |-> "unset", at |-> 0]

\* No getProductKey call under observation.
KeyIdle ==
    /\ argProduct = NullProduct
    /\ argFallback = "undefined"
    /\ caller = "none"
    /\ now = 0
    /\ firstKey = NoKey
    /\ secondKey = NoKey

NoCatalog == [loaded |-> FALSE, list |-> <<>>]

NotAccessed == [done |-> FALSE, index |-> 0, raised |-> {}]

\* No catalog response under observation.
CatalogIdle ==
    /\ payload = Payload("null", <<>>, NoField, NoField)
    /\ catalog = NoCatalog
    /\ accessed = NotAccessed

\* Nothing rendered but the empty cart, no call issued.
HandlerIdle ==
    /\ rendered = EmptyItems
    /\ issued = <<>>

\* The application as it starts: logged out; MainLayout and ShopPage are not
\* mounted, and start at 'home' and [] when they are.
AppIdle ==
    /\ isAuthenticated = FALSE
    /\ activeTab = "home"
    /\ shopProducts = <<>>

\* No accessor call under observation.
NoResult == [accessor |-> "none", value |-> Undefined]

AccessorIdle ==
    /\ subject = NullProduct
    /\ subjectIndex = 0
    /\ result = NoResult

NoLoadEvent ==
    [kind |-> "none", load |-> 0, isRefresh |-> FALSE, productsBefore |-> <<>>]

\* ShopPage as it mounts, before its effect runs.
LoadIdle ==
    /\ loading = TRUE
    /\ error = "null"
    /\ refreshing = FALSE
    /\ pendingLoads = {}
    /\ started = 0
    /\ outcomes = <<>>
    /\ loadEvent = NoLoadEvent

NoSubmit ==
    [kind |-> "none", form |-> InitialUser, userBefore |-> InitialUser]

\* ProfilePage as it mounts: the drawer is closed.
ProfileIdle ==
    /\ formState = createFormState(InitialUser)
    /\ formError = "null"
    /\ user = InitialUser
    /\ isDrawerVisible = FALSE
    /\ submitEvent = NoSubmit

\* AuthPage as it mounts.
AuthIdle ==
    /\ mode = "mobile"
    /\ email = "s:"
    /\ mobile = "s:"
    /\ showOtpInput = FALSE
    /\ isSending = FALSE
    /\ authError = "null"
    /\ resendSeconds = 0
    /\ sends = <<>>

PageIdle == AccessorIdle /\ LoadIdle /\ ProfileIdle /\ AuthIdle

Init ==
    /\ StoreInit
    /\ KeyIdle
    /\ CatalogIdle
    /\ HandlerIdle
    /\ AppIdle
    /\ PageIdle

\* Bookkeeping of incrementRun for a cart call `op` on `key` giving `next`.
NextRun(op, key, next) ==
    [k \in Keys |->
        IF ~HasOwn(next, k) THEN 0
        ELSE IF op = "incrementItem" /\ k = key
             THEN (IF incrementRun[k] >= 0 THEN incrementRun[k] + 1 ELSE -1)
        ELSE IF op = "clear" \/ k = key THEN -1
        ELSE incrementRun[k]]

\* What a cart call leaves behind besides the new items: the record of the
\* call and of the state it was made in.  The favorites store is not touched.
CartStep(op, key, product) ==
    /\ call' = [store |-> "cart", op |-> op, key |-> key, product |-> product]
    /\ cartBefore' = cartItems
    /\ favoritesBefore' = favoriteItems
    /\ incrementRun' = NextRun(op, key, cartItems')
    /\ UNCHANGED favoriteItems
    /\ UNCHANGED <<keyVars, catalogVars>>

IncrementItem(key, product) ==
    /\ LET q == QuantityOrZero(cartItems, key)
       IN  q.nan \/ q.n < MaxQuantity
    /\ cartItems' = incrementItem(cartItems, key, product)
    /\ CartStep("incrementItem", key, product)
    /\ UNCHANGED <<handlerVars, appVars, pageVars>>

DecrementItem(key) ==
    /\ cartItems' = decrementItem(cartItems, key)
    /\ CartStep("decrementItem", key, Undefined)
    /\ UNCHANGED <<handlerVars, appVars, pageVars>>

RemoveItem(key) ==
    /\ cartItems' = removeItem(cartItems, key)
    /\ CartStep("removeItem", key, Undefined)
    /\ UNCHANGED <<handlerVars, appVars, pageVars>>

Clear ==
    /\ cartItems' = clear(cartItems)
    /\ CartStep("clear", "none", Undefined)
    /\ UNCHANGED <<handlerVars, appVars, pageVars>>

\* Variant of FavoritesStep for stores that share one state: a favorites
\* clear resets the cart with it.
FavoritesStepSharingState(op, key, product) ==
    /\ call' = [store |-> "favorites", op |-> op, key |-> key,
                product |-> product]
    /\ cartBefore' = cartItems
    /\ favoritesBefore' = favoriteItems
    /\ cartItems' = IF op = "clear" THEN EmptyItems ELSE cartItems
    /\ UNCHANGED incrementRun
    /\ UNCHANGED <<keyVars, catalogVars, handlerVars, appVars, pageVars>>

\* The same for a favorites call; the cart store is not touched.
FavoritesStep(op, key, product) ==
    /\ call' = [store |-> "favorites", op |-> op, key |-> key,
                product |-> product]
    /\ cartBefore' = cartItems
    /\ favoritesBefore' = favoriteItems
    /\ UNCHANGED <<cartItems, incrementRun>>
    /\ UNCHANGED <<keyVars, catalogVars, handlerVars, appVars, pageVars>>

ToggleItem(key, product) ==
    /\ favoriteItems' = toggleItem(favoriteItems, key, product)
    /\ FavoritesStep("toggleItem", key, product)

FavoritesRemoveItem(key) ==
    /\ favoriteItems' = favoritesRemoveItem(favoriteItems, key)
    /\ FavoritesStep("removeItem", key, Undefined)

FavoritesClear ==
    /\ favoriteItems' = favoritesClear(favoriteItems)
    /\ FavoritesStep("clear", "none", Undefined)

CartNext ==
    \/ \E key \in Keys, product \in Products : IncrementItem(key, product)
    \/ \E key \in Keys : DecrementItem(key)
    \/ \E key \in Keys : RemoveItem(key)
    \/ Clear

FavoritesNext ==
    \/ \E key \in Keys, product \in Payloads : ToggleItem(key, product)
    \/ \E key \in Keys : FavoritesRemoveItem(key)
    \/ FavoritesClear

Next == CartNext \/ FavoritesNext

\* The cart store alone, the favorites store alone, and both together.
CartSpec == Init /\ [][CartNext]_vars

FavoritesSpec == Init /\ [][FavoritesNext]_vars

Spec == Init /\ [][Next]_vars

(* ------------------------------------------------ the screens' handlers *)

\* The keys of the rows the screens show: an ordinary product key and one
\* that is also a member of Object.prototype.
RowKeys == {"sku-1", "constructor"}

\* The product the Shop's catalog holds, and the one the favorites hold: a
\* product may be favorited in one version and listed in another.
ShopProduct == "productA"

FavoriteProduct == "productB"

\* What a handler's call leaves behind: the call joins the calls issued
\* since the last render; no screen renders in between.
HandlerStep(screen, op, key, product) ==
    /\ Len(issued) < MaxBurst
    /\ issued' = Append(issued, [screen |-> screen, op |-> op, key |-> key,
                                  product |-> product])
    /\ CartStep(op, key, product)
    /\ UNCHANGED rendered
    /\ UNCHANGED <<appVars, pageVars>>

\* Shop: handleAddToCart(productKey, product) for a row of the catalog.
ShopHandleAddToCart(key) ==
    /\ LET q == QuantityOrZero(cartItems, key)
       IN  q.nan \/ q.n < MaxQuantity
    /\ cartItems' = incrementItem(StoreState(rendered, cartItems), key,
                                  ShopProduct)
    /\ HandlerStep("shop", "incrementItem", key, ShopProduct)

\* Favorites: onAddToCart(key, product) for a favorite.
FavoritesHandleAddToCart(key) ==
    /\ LET q == QuantityOrZero(cartItems, key)
       IN  q.nan \/ q.n < MaxQuantity
    /\ cartItems' = incrementItem(StoreState(rendered, cartItems), key,
                                  FavoriteProduct)
    /\ HandlerStep("favorites", "incrementItem", key, FavoriteProduct)

\* Cart and Profile: handleIncrement(key, product) for a row of the cart as
\* it was rendered; the product is the one of the rendered entry.
HandleIncrement(screen, key) ==
    /\ HasOwn(rendered, key)
    /\ LET q == QuantityOrZero(cartItems, key)
       IN  q.nan \/ q.n < MaxQuantity
    /\ cartItems' = incrementItem(StoreState(rendered, cartItems), key,
                                  rendered[key].product)
    /\ HandlerStep(screen, "incrementItem", key, rendered[key].product)

\* Cart and Profile: handleDecrement(key) for a row of the cart as it was
\* rendered.
HandleDecrement(screen, key) ==
    /\ HasOwn(rendered, key)
    /\ cartItems' = decrementItem(StoreState(rendered, cartItems), key)
    /\ HandlerStep(screen, "decrementItem", key, Undefined)

\* The screens render with the store's items; their handlers capture them.
Render ==
    /\ rendered # cartItems \/ issued # <<>>
    /\ rendered' = cartItems
    /\ issued' = <<>>
    /\ UNCHANGED <<storeVars, keyVars, catalogVars, appVars, pageVars>>

HandlerNext ==
    \/ \E key \in RowKeys : ShopHandleAddToCart(key)
    \/ \E key \in RowKeys : FavoritesHandleAddToCart(key)
    \/ \E screen \in {"cart", "profile"}, key \in RowKeys :
           HandleIncrement(screen, key)
    \/ \E screen \in {"cart", "profile"}, key \in RowKeys :
           HandleDecrement(screen, key)
    \/ Render

HandlerSpec == Init /\ [][HandlerNext]_vars

(* ------------------------------------------------------- the application *)

\* TabKey
Tabs == {"home", "shop", "favorites", "cart", "profile"}

\* A row of the Shop list: the product and the key the list gave it.
Row(key, product) == [key |-> key, product |-> product]

\* The catalogs fetchProducts answers with, after normalizeProducts.
ShopCatalogs ==
    {<<>>}
    \cup {<<Row("sku-1", product)>> : product \in Products}
    \cup {<<Row("sku-1", "productA"), Row("constructor", "productB")>>}

\* Variant of AppStep for an application that resets its stores when the
\* user logs out.
AppStepResettingStores(op, arg) ==
    /\ call' = [store |-> "app", op |-> op, key |-> arg, product |-> Undefined]
    /\ cartBefore' = cartItems
    /\ favoritesBefore' = favoriteItems
    /\ cartItems' = IF op = "logout" THEN EmptyItems ELSE cartItems
    /\ favoriteItems' = IF op = "logout" THEN EmptyItems ELSE favoriteItems
    /\ incrementRun' = IF op = "logout" THEN [k \in Keys |-> 0]
                       ELSE incrementRun
    /\ UNCHANGED <<keyVars, catalogVars, handlerVars, pageVars>>

\* What an application event leaves behind besides the new component state:
\* the record of the event.  No store action is called.
AppStep(op, arg) ==
    /\ call' = [store |-> "app", op |-> op, key |-> arg, product |-> Undefined]
    /\ cartBefore' = cartItems
    /\ favoritesBefore' = favoriteItems
    /\ UNCHANGED <<cartItems, favoriteItems, incrementRun>>
    /\ UNCHANGED <<keyVars, catalogVars, handlerVars, pageVars>>

\* AuthPage onLoginSuccess: setIsAuthenticated(true); MainLayout mounts with
\* activeTab 'home'.
Login ==
    /\ ~isAuthenticated
    /\ isAuthenticated' = TRUE
    /\ activeTab' = "home"
    /\ shopProducts' = <<>>
    /\ AppStep("login", "none")

\* MainLayout onLogout: setIsAuthenticated(false); MainLayout and the page
\* it shows unmount, their component state is dropped.
Logout ==
    /\ isAuthenticated
    /\ isAuthenticated' = FALSE
    /\ activeTab' = "home"
    /\ shopProducts' = <<>>
    /\ AppStep("logout", "none")

\* setActiveTab(tab.key): the page shown unmounts and the page of the tab
\* mounts; ShopPage starts with products = [].
SetActiveTab(tab) ==
    /\ isAuthenticated
    /\ tab # activeTab
    /\ activeTab' = tab
    /\ shopProducts' = <<>>
    /\ UNCHANGED isAuthenticated
    /\ AppStep("setActiveTab", tab)

\* loadProducts, on mount or on refresh: setProducts(nextProducts).
LoadProducts(list) ==
    /\ isAuthenticated
    /\ activeTab = "shop"
    /\ shopProducts' = list
    /\ UNCHANGED <<isAuthenticated, activeTab>>
    /\ AppStep("loadProducts", "none")

\* Shop: the add-to-cart button of row `index`.
AppShopAddToCart(index) ==
    /\ isAuthenticated /\ activeTab = "shop"
    /\ index \in 1..Len(shopProducts)
    /\ LET row == shopProducts[index]
           q == QuantityOrZero(cartItems, row.key)
       IN  /\ q.nan \/ q.n < MaxQuantity
           /\ cartItems' = incrementItem(cartItems, row.key, row.product)
           /\ CartStep("incrementItem", row.key, row.product)
    /\ UNCHANGED <<handlerVars, appVars, pageVars>>

\* Shop: the heart button of row `index`.
AppShopToggleFavorite(index) ==
    /\ isAuthenticated /\ activeTab = "shop"
    /\ index \in 1..Len(shopProducts)
    /\ LET row == shopProducts[index]
       IN  /\ favoriteItems' = toggleItem(favoriteItems, row.key, row.product)
           /\ FavoritesStep("toggleItem", row.key, row.product)

\* Favorites: the add-to-cart button of the favorite under `key`.
AppFavoritesAddToCart(key) ==
    /\ isAuthenticated /\ activeTab = "favorites"
    /\ HasOwn(favoriteItems, key)
    /\ LET q == QuantityOrZero(cartItems, key)
       IN  q.nan \/ q.n < MaxQuantity
    /\ cartItems' = incrementItem(cartItems, key, favoriteItems[key])
    /\ CartStep("incrementItem", key, favoriteItems[key])
    /\ UNCHANGED <<handlerVars, appVars, pageVars>>

\* Favorites: the remove button of the favorite under `key`.
AppFavoritesRemove(key) ==
    /\ isAuthenticated /\ activeTab = "favorites"
    /\ HasOwn(favoriteItems, key)
    /\ favoriteItems' = favoritesRemoveItem(favoriteItems, key)
    /\ FavoritesStep("removeItem", key, Undefined)

\* Favorites: the Clear button, shown when there is a favorite.
AppFavoritesClear ==
    /\ isAuthenticated /\ activeTab = "favorites"
    /\ favoriteItems # EmptyItems
    /\ favoriteItems' = favoritesClear(favoriteItems)
    /\ FavoritesStep("clear", "none", Undefined)

\* Cart and Profile: the + button of the cart row under `key`.
AppCartIncrement(key) ==
    /\ isAuthenticated /\ activeTab \in {"cart", "profile"}
    /\ HasOwn(cartItems, key)
    /\ LET q == QuantityOrZero(cartItems, key)
       IN  q.nan \/ q.n < MaxQuantity
    /\ cartItems' = incrementItem(cartItems, key, cartItems[key].product)
    /\ CartStep("incrementItem", key, cartItems[key].product)
    /\ UNCHANGED <<handlerVars, appVars, pageVars>>

\* Cart and Profile: the - button of the cart row under `key`.
AppCartDecrement(key) ==
    /\ isAuthenticated /\ activeTab \in {"cart", "profile"}
    /\ HasOwn(cartItems, key)
    /\ cartItems' = decrementItem(cartItems, key)
    /\ CartStep("decrementItem", key, Undefined)
    /\ UNCHANGED <<handlerVars, appVars, pageVars>>

\* Cart and Profile: the remove button of the cart row under `key`.
AppCartRemove(key) ==
    /\ isAuthenticated /\ activeTab \in {"cart", "profile"}
    /\ HasOwn(cartItems, key)
    /\ cartItems' = removeItem(cartItems, key)
    /\ CartStep("removeItem", key, Undefined)
    /\ UNCHANGED <<handlerVars, appVars, pageVars>>

\* Cart: handleClearCart.
AppCartClear ==
    /\ isAuthenticated /\ activeTab = "cart"
    /\ cartItems' = clear(cartItems)
    /\ CartStep("clear", "none", Undefined)
    /\ UNCHANGED <<handlerVars, appVars, pageVars>>

AppNext ==
    \/ Login
    \/ Logout
    \/ \E tab \in Tabs : SetActiveTab(tab)
    \/ \E list \in ShopCatalogs : LoadProducts(list)
    \/ \E index \in 1..2 : AppShopAddToCart(index)
    \/ \E index \in 1..2 : AppShopToggleFavorite(index)
    \/ \E key \in Keys : AppFavoritesAddToCart(key)
    \/ \E key \in Keys : AppFavoritesRemove(key)
    \/ AppFavoritesClear
    \/ \E key \in Keys : AppCartIncrement(key)
    \/ \E key \in Keys : AppCartDecrement(key)
    \/ \E key \in Keys : AppCartRemove(key)
    \/ AppCartClear

AppSpec == Init /\ [][AppNext]_vars

(* ------------------------------------------------- getProductKey, observed *)

\* The list indexes the Shop list passes as fallback.
ShopIndexes == {"n:0", "n:1"}

\* Any product and any fallback; two calls are then made with them.
KeyInit ==
    /\ StoreInit
    /\ CatalogIdle
    /\ HandlerIdle
    /\ AppIdle
    /\ PageIdle
    /\ argProduct \in {NullProduct} \cup
                   {ProductObject(a, b, c, d) :
                       a \in IdValues,
                       b \in {"undefined", "null", "n:0", "s:sku-1"},
                       c \in {"undefined", "n:1", "s:"},
                       d \in {"undefined", "null", "s:", "s:sku-1"}}
    /\ caller \in {"direct", "shop"}
    /\ argFallback \in IF caller = "shop" THEN ShopIndexes ELSE IdValues
    /\ now = 0
    /\ firstKey = NoKey
    /\ secondKey = NoKey

\* Time passes between the calls.
Tick ==
    /\ now < MaxClock
    /\ now' = now + 1
    /\ UNCHANGED <<argProduct, argFallback, caller, firstKey, secondKey>>
    /\ UNCHANGED <<storeVars, catalogVars, handlerVars, appVars, pageVars>>

\* The first call: getProductKey(product, fallback), or the Shop list's
\* keyExtractor for the row.
FirstCall ==
    /\ firstKey = NoKey
    /\ firstKey' =
           [key |-> IF caller = "shop"
                    THEN ShopKeyExtractor(argProduct, argFallback, now)
                    ELSE getProductKey(argProduct, argFallback, now),
            at  |-> now]
    /\ UNCHANGED <<argProduct, argFallback, caller, now, secondKey>>
    /\ UNCHANGED <<storeVars, catalogVars, handlerVars, appVars, pageVars>>

\* The second call with the same arguments: getProductKey again, or the Shop
\* list's renderItem for the same row.
SecondCall ==
    /\ firstKey # NoKey
    /\ secondKey = NoKey
    /\ secondKey' =
           [key |-> IF caller = "shop"
                    THEN ShopRenderItemKey(argProduct, argFallback, now)
                    ELSE getProductKey(argProduct, argFallback, now),
            at  |-> now]
    /\ UNCHANGED <<argProduct, argFallback, caller, now, firstKey>>
    /\ UNCHANGED <<storeVars, catalogVars, handlerVars, appVars, pageVars>>

KeyNext == Tick \/ FirstCall \/ SecondCall

KeySpec == KeyInit /\ [][KeyNext]_vars

(* --------------------------------------------- catalog responses, observed *)

\* The elements a response list is made of: null, an object without any
\* field, an object with an id.  The list is passed through unvalidated.
Elements ==
    {NullProduct,
     ProductObject("undefined", "undefined", "undefined", "undefined"),
     ProductObject("s:sku-1", "undefined", "undefined", "undefined")}

Lists == UNION {[1..n -> Elements] : n \in 0..MaxListLen}

Fields == {NoField, OtherField} \cup {ArrayField(l) : l \in Lists}

ResponsePayloads ==
    {Payload("null", <<>>, NoField, NoField),
     Payload("string", <<>>, NoField, NoField)}
    \cup {Payload("array", l, NoField, NoField) : l \in Lists}
    \cup {Payload("object", <<>>, d, i) : d \in Fields, i \in Fields}

CatalogInit ==
    /\ StoreInit
    /\ KeyIdle
    /\ HandlerIdle
    /\ AppIdle
    /\ PageIdle
    /\ payload \in ResponsePayloads
    /\ catalog = NoCatalog
    /\ accessed = NotAccessed

\* const nextProducts = normalizeProducts(response.data)
Normalize ==
    /\ ~catalog.loaded
    /\ catalog' = [loaded |-> TRUE, list |-> normalizeProducts(payload)]
    /\ UNCHANGED <<payload, accessed>>
    /\ UNCHANGED <<storeVars, keyVars, handlerVars, appVars, pageVars>>

\* The list renders row `index`: the five accessors are called on the
\* element, the index being the fallback.
Access(index) ==
    /\ catalog.loaded
    /\ index \in 1..Len(catalog.list)
    /\ accessed' = [done   |-> TRUE,
                    index  |-> index,
                    raised |-> RaisingAccessors(catalog.list[index],
                                                IndexValue(index))]
    /\ UNCHANGED <<payload, catalog>>
    /\ UNCHANGED <<storeVars, keyVars, handlerVars, appVars, pageVars>>

CatalogNext == Normalize \/ \E index \in 1..MaxListLen : Access(index)

CatalogSpec == CatalogInit /\ [][CatalogNext]_vars

(* ------------------------------------------ descriptive accessors, observed *)

\* Products that differ in their name fields, their price fields, their
\* description fields, or their image fields.
TitleSubjects ==
    {[BlankProduct EXCEPT !.name = a, !.productName = b, !.title = c] :
        a \in {"undefined", "null", "s:", "s:Pump"},
        b \in {"undefined", "s:", "s:Filter"},
        c \in {"undefined", "s:Pump"}}

PriceSubjects ==
    {[BlankProduct EXCEPT !.price = a, !.sellingPrice = b, !.mrp = c] :
        a \in {"undefined", "null", "s:N/A", "n:0", "n:1"},
        b \in {"undefined", "s:N/A", "n:0", "n:2"},
        c \in {"undefined", "n:0", "n:1"}}

DescriptionSubjects ==
    {[BlankProduct EXCEPT !.description = a, !.shortDescription = b] :
        a \in {"undefined", "null", "n:1", "s:", "s:  ", "s: soft water ",
               "s:pure"},
        b \in {"undefined", "s:", "s:  ", "s: soft water ", "s:pure"}}

PhotoEntries ==
    {NullEntry} \cup
    {PhotoEntry(a, b, c) : a \in {"undefined", "s:", "s:u1"},
                           b \in {"undefined", "s:u2"},
                           c \in {"undefined", "s:u3"}}

PhotoLists == UNION {[1..n -> PhotoEntries] : n \in 0..MaxListLen}

ImageSubjects ==
    {[BlankProduct EXCEPT !.photos = ph, !.imageUrl = a, !.image = b,
                          !.thumbnail = c] :
        ph \in {NoPhotos} \cup {Photos(l) : l \in PhotoLists},
        a \in {"undefined", "s:", "s:p1"},
        b \in {"undefined", "s:p2"},
        c \in {"undefined", "s:p3"}}

\* Any of these products; the list index matters to the title only.
AccessorInit ==
    /\ StoreInit
    /\ KeyIdle
    /\ CatalogIdle
    /\ HandlerIdle
    /\ AppIdle
    /\ subject \in TitleSubjects \cup PriceSubjects \cup DescriptionSubjects
                   \cup ImageSubjects
    /\ subjectIndex \in IF subject \in TitleSubjects THEN 0..1 ELSE {0}
    /\ result = NoResult
    /\ LoadIdle
    /\ ProfileIdle
    /\ AuthIdle

\* The accessors are pure: a call changes nothing but the result observed.
AccessorStep ==
    /\ UNCHANGED <<subject, subjectIndex>>
    /\ UNCHANGED <<storeVars, keyVars, catalogVars, handlerVars, appVars>>
    /\ UNCHANGED <<loadVars, profileVars, authVars>>

GetProductTitle ==
    /\ result' = [accessor |-> "getProductTitle",
                  value    |-> getProductTitle(subject, subjectIndex)]
    /\ AccessorStep

GetProductPrice ==
    /\ result' = [accessor |-> "getProductPrice",
                  value    |-> getProductPrice(subject)]
    /\ AccessorStep

GetProductDescription ==
    /\ result' = [accessor |-> "getProductDescription",
                  value    |-> getProductDescription(subject)]
    /\ AccessorStep

GetProductImages ==
    /\ result' = [accessor |-> "getProductImages",
                  value    |-> getProductImages(subject)]
    /\ AccessorStep

AccessorNext ==
    \/ GetProductTitle
    \/ GetProductPrice
    \/ GetProductDescription
    \/ GetProductImages

AccessorSpec == AccessorInit /\ [][AccessorNext]_vars

(* ----------------------------------------------- the Shop screen's loads *)

ErrorMessage == "Unable to load products right now. Please try again later."

\* The load on mount is loadProducts(); every later one is a refresh,
\* loadProducts(true).
IsRefresh(load) == load > 1

Pending == [state |-> "pending", list |-> <<>>]

Fulfilled(list) == [state |-> "fulfilled", list |-> list]

Rejected == [state |-> "rejected", list |-> <<>>]

\* The Shop screen is shown: the user is logged in and on the shop tab.
LoadInit ==
    /\ StoreInit
    /\ KeyIdle
    /\ CatalogIdle
    /\ HandlerIdle
    /\ isAuthenticated = TRUE
    /\ activeTab = "shop"
    /\ shopProducts = <<>>
    /\ AccessorIdle
    /\ LoadIdle
    /\ ProfileIdle
    /\ AuthIdle

\* What every step of a load leaves alone.
LoadStep ==
    /\ UNCHANGED <<isAuthenticated, activeTab>>
    /\ UNCHANGED <<storeVars, keyVars, catalogVars, handlerVars>>
    /\ UNCHANGED <<accessorVars, profileVars, authVars>>

\* useEffect(() => { loadProducts(); }): setLoading(true), setError(null),
\* then the fetch is awaited.
StartInitialLoad ==
    /\ started = 0
    /\ loading' = TRUE
    /\ error' = "null"
    /\ started' = 1
    /\ pendingLoads' = {1}
    /\ outcomes' = <<Pending>>
    /\ loadEvent' = [kind |-> "started", load |-> 1, isRefresh |-> FALSE,
                     productsBefore |-> shopProducts]
    /\ UNCHANGED <<refreshing, shopProducts>>
    /\ LoadStep

\* handleRefresh: setRefreshing(true); loadProducts(true): setError(null),
\* then the fetch is awaited.
HandleRefresh ==
    /\ started >= 1
    /\ started < MaxLoads
    /\ refreshing' = TRUE
    /\ error' = "null"
    /\ started' = started + 1
    /\ pendingLoads' = pendingLoads \cup {started + 1}
    /\ outcomes' = Append(outcomes, Pending)
    /\ loadEvent' = [kind |-> "started", load |-> started + 1,
                     isRefresh |-> TRUE, productsBefore |-> shopProducts]
    /\ UNCHANGED <<loading, shopProducts>>
    /\ LoadStep

\* finally { if (isRefresh) setRefreshing(false) else setLoading(false) }
Finally(load) ==
    /\ loading' = IF IsRefresh(load) THEN loading ELSE FALSE
    /\ refreshing' = IF IsRefresh(load) THEN FALSE ELSE refreshing

\* Variant of Reject for a screen that empties its list when a load fails.
RejectClearingProducts(load) ==
    /\ load \in pendingLoads
    /\ error' = ErrorMessage
    /\ shopProducts' = <<>>
    /\ Finally(load)
    /\ pendingLoads' = pendingLoads \ {load}
    /\ outcomes' = [outcomes EXCEPT ![load] = Rejected]
    /\ loadEvent' = [kind |-> "rejected", load |-> load,
                     isRefresh |-> IsRefresh(load),
                     productsBefore |-> shopProducts]
    /\ UNCHANGED started
    /\ LoadStep

\* The fetch of `load` fails: catch { setError(...) }, then finally.
Reject(load) ==
    /\ load \in pendingLoads
    /\ error' = ErrorMessage
    /\ Finally(load)
    /\ pendingLoads' = pendingLoads \ {load}
    /\ outcomes' = [outcomes EXCEPT ![load] = Rejected]
    /\ loadEvent' = [kind |-> "rejected", load |-> load,
                     isRefresh |-> IsRefresh(load),
                     productsBefore |-> shopProducts]
    /\ UNCHANGED <<started, shopProducts>>
    /\ LoadStep

\* The fetch of `load` answers with `list` (after normalizeProducts):
\* setProducts(nextProducts), then finally.
Fulfil(load, list) ==
    /\ load \in pendingLoads
    /\ shopProducts' = list
    /\ Finally(load)
    /\ pendingLoads' = pendingLoads \ {load}
    /\ outcomes' = [outcomes EXCEPT ![load] = Fulfilled(list)]
    /\ loadEvent' = [kind |-> "fulfilled", load |-> load,
                     isRefresh |-> IsRefresh(load),
                     productsBefore |-> shopProducts]
    /\ UNCHANGED <<started, error>>
    /\ LoadStep

\* The fetch of `load` settles, one way or the other.
Settle(load) == Reject(load) \/ \E list \in ShopCatalogs : Fulfil(load, list)

LoadNext ==
    \/ StartInitialLoad
    \/ HandleRefresh
    \/ \E load \in 1..MaxLoads : Reject(load)
    \/ \E load \in 1..MaxLoads, list \in ShopCatalogs : Fulfil(load, list)

\* The effect runs once the screen is mounted, and every fetch settles.
LoadSpec ==
    /\ LoadInit
    /\ [][LoadNext]_vars
    /\ WF_vars(StartInitialLoad)
    /\ \A load \in 1..MaxLoads : WF_vars(Settle(load))

(* ------------------------------------------------ the profile edit form *)

\* The values typed into firstName, email and phone (the field is emptied,
\* filled with blanks, or given its first value again), and into an
\* address's line1.
TypedValues(key) ==
    IF key = "firstName" THEN {"s:", "s:  ", InitialUser[key]}
    ELSE IF key = "email" THEN {"s:", InitialUser[key]}
    ELSE {"s:  ", InitialUser[key]}

TypedLines == {"s:  ", "s:12 Lake Road"}

\* What every step of the form leaves alone.
ProfileStep ==
    /\ UNCHANGED <<storeVars, keyVars, catalogVars, handlerVars, appVars>>
    /\ UNCHANGED <<accessorVars, loadVars, authVars>>

\* handleEditPress: setDrawerVisible(true); the drawer's effect then sets
\* the form from the user and clears the error.  The sessions followed start
\* from the initial user.
HandleEditPress ==
    /\ ~isDrawerVisible
    /\ user = InitialUser
    /\ isDrawerVisible' = TRUE
    /\ formState' = createFormState(user)
    /\ formError' = "null"
    /\ submitEvent' = NoSubmit
    /\ UNCHANGED user
    /\ ProfileStep

HandleInputChange(key, value) ==
    /\ isDrawerVisible
    /\ formState' = [formState EXCEPT ![key] = value]
    /\ submitEvent' = NoSubmit
    /\ UNCHANGED <<formError, user, isDrawerVisible>>
    /\ ProfileStep

HandleAddressChange(index, value) ==
    /\ isDrawerVisible
    /\ index \in DOMAIN formState.addresses
    /\ formState' =
           [formState EXCEPT !.addresses =
               handleAddressChange(formState.addresses,
                                   formState.addresses[index].id,
                                   "line1", value)]
    /\ submitEvent' = NoSubmit
    /\ UNCHANGED <<formError, user, isDrawerVisible>>
    /\ ProfileStep

HandleSetDefaultAddress(index) ==
    /\ isDrawerVisible
    /\ index \in DOMAIN formState.addresses
    /\ formState' =
           [formState EXCEPT !.addresses =
               handleSetDefaultAddress(formState.addresses,
                                       formState.addresses[index].id)]
    /\ submitEvent' = NoSubmit
    /\ UNCHANGED <<formError, user, isDrawerVisible>>
    /\ ProfileStep

HandleAddAddress ==
    /\ isDrawerVisible
    /\ Len(formState.addresses) < MaxAddresses
    /\ formState' =
           [formState EXCEPT !.addresses =
               handleAddAddress(formState.addresses, now)]
    /\ submitEvent' = NoSubmit
    /\ UNCHANGED <<formError, user, isDrawerVisible>>
    /\ ProfileStep

HandleRemoveAddress(index) ==
    /\ isDrawerVisible
    /\ index \in DOMAIN formState.addresses
    /\ formState' =
           [formState EXCEPT !.addresses =
               handleRemoveAddress(formState.addresses,
                                   formState.addresses[index].id)]
    /\ submitEvent' = NoSubmit
    /\ UNCHANGED <<formError, user, isDrawerVisible>>
    /\ ProfileStep

\* handleSubmit; when it saves, handleSaveProfile dispatches UPDATE_USER and
\* closes the drawer.
HandleSubmit ==
    /\ isDrawerVisible
    /\ LET submitted == handleSubmit(formState)
       IN  /\ formError' = submitted.error
           /\ user' = IF submitted.saved THEN submitted.payload ELSE user
           /\ isDrawerVisible' = ~submitted.saved
           /\ submitEvent' =
                  [kind |-> IF submitted.saved THEN "saved" ELSE "refused",
                   form |-> formState, userBefore |-> user]
    /\ UNCHANGED formState
    /\ ProfileStep

ProfileNext ==
    \/ HandleEditPress
    \/ \E key \in {"firstName", "email", "phone"} :
           \E value \in TypedValues(key) : HandleInputChange(key, value)
    \/ \E index \in 1..MaxAddresses, value \in TypedLines :
           HandleAddressChange(index, value)
    \/ \E index \in 1..MaxAddresses : HandleSetDefaultAddress(index)
    \/ HandleAddAddress
    \/ \E index \in 1..MaxAddresses : HandleRemoveAddress(index)
    \/ HandleSubmit
    \/ Tick

ProfileSpec == Init /\ [][ProfileNext]_vars

(* ------------------------------------------------------ the Auth screen *)

\* useMemo: the identifier of the chosen mode is well formed.
identifierOk == IF mode = "email" THEN EmailOk(email) ELSE MobileOk(mobile)

\* disabled={resendSeconds > 0 || isSending} of the resend link
ResendDisabled == resendSeconds > 0 \/ isSending

\* What every step of the Auth screen leaves alone.
AuthStep ==
    /\ UNCHANGED <<storeVars, keyVars, catalogVars, handlerVars, appVars>>
    /\ UNCHANGED <<accessorVars, loadVars, profileVars>>

\* A mode tab is pressed: setMode(next), setError(null).
SetMode(next) ==
    /\ ~showOtpInput
    /\ mode' = next
    /\ authError' = "null"
    /\ UNCHANGED <<email, mobile, showOtpInput, isSending, resendSeconds,
                   sends>>
    /\ AuthStep

\* onChangeText of the email input: setEmail(t), setError(null).
ChangeEmail(text) ==
    /\ ~showOtpInput
    /\ mode = "email"
    /\ email' = text
    /\ authError' = "null"
    /\ UNCHANGED <<mode, mobile, showOtpInput, isSending, resendSeconds,
                   sends>>
    /\ AuthStep

\* onChangeText of the mobile input (digits typed): setMobile(t),
\* setError(null).
ChangeMobile(text) ==
    /\ ~showOtpInput
    /\ mode = "mobile"
    /\ mobile' = text
    /\ authError' = "null"
    /\ UNCHANGED <<mode, email, showOtpInput, isSending, resendSeconds,
                   sends>>
    /\ AuthStep

\* handleSendOtp up to its await: setError(null); a malformed identifier is
\* refused with an error, else setIsSending(true) and the timer is awaited.
handleSendOtp ==
    /\ identifierOk => Len(sends) < MaxSends
    /\ authError' = IF identifierOk THEN "null"
                    ELSE IF mode = "email" THEN EmailError ELSE MobileError
    /\ isSending' = (identifierOk \/ isSending)
    /\ sends' = IF identifierOk THEN Append(sends, 0) ELSE sends
    /\ UNCHANGED <<mode, email, mobile, showOtpInput, resendSeconds>>
    /\ AuthStep

\* onSubmitEditing of the email or mobile input.
SubmitEditing ==
    /\ ~showOtpInput
    /\ handleSendOtp

\* The "Get OTP" button, disabled={!identifierOk || isSending}.
PressGetOtp ==
    /\ ~showOtpInput
    /\ ~(~identifierOk \/ isSending)
    /\ handleSendOtp

\* The resend link, shown with the OTP input.
PressResend ==
    /\ showOtpInput
    /\ ~ResendDisabled
    /\ handleSendOtp

\* The timer of the oldest awaited send fires: setShowOtpInput(true),
\* setResendSeconds(30), then finally { setIsSending(false) }.
SettleSend ==
    /\ sends # <<>>
    /\ sends' = Tail(sends)
    /\ showOtpInput' = TRUE
    /\ resendSeconds' = ResendDelay
    /\ isSending' = FALSE
    /\ UNCHANGED <<mode, email, mobile, authError>>
    /\ AuthStep

\* Variant of ResendTick for an interval that is never cleared.
ResendTickUncleared ==
    /\ \A i \in 1..Len(sends) : sends[i] * TickInterval < SendDelay
    /\ resendSeconds > -1
    /\ resendSeconds' = resendSeconds - 1
    /\ sends' = [i \in 1..Len(sends) |-> sends[i] + 1]
    /\ UNCHANGED <<mode, email, mobile, showOtpInput, isSending, authError>>
    /\ AuthStep

\* The interval of the resend effect fires: the effect sets it only while
\* resendSeconds > 0 and clears it when resendSeconds changes.  Two firings
\* are TickInterval apart or more, so a send that saw k of them has waited
\* longer than (k - 1) * TickInterval, and its timer of SendDelay comes due
\* before a firing that would find it k * TickInterval >= SendDelay old.
ResendTick ==
    /\ \A i \in 1..Len(sends) : sends[i] * TickInterval < SendDelay
    /\ resendSeconds > 0
    /\ resendSeconds' = resendSeconds - 1
    /\ sends' = [i \in 1..Len(sends) |-> sends[i] + 1]
    /\ UNCHANGED <<mode, email, mobile, showOtpInput, isSending, authError>>
    /\ AuthStep

\* handleBack: setShowOtpInput(false), setError(null).
HandleBack ==
    /\ showOtpInput
    /\ showOtpInput' = FALSE
    /\ authError' = "null"
    /\ UNCHANGED <<mode, email, mobile, isSending, resendSeconds, sends>>
    /\ AuthStep

AuthNext ==
    \/ \E next \in {"email", "mobile"} : SetMode(next)
    \/ \E text \in Emails : ChangeEmail(text)
    \/ \E text \in Mobiles : ChangeMobile(text)
    \/ SubmitEditing
    \/ PressGetOtp
    \/ PressResend
    \/ SettleSend
    \/ ResendTick
    \/ HandleBack

AuthSpec == Init /\ [][AuthNext]_vars

(* ------------------------------------------------- the Shop list, observed *)

\* Products of a catalog shown by the Shop screen: objects with or without
\* an id (the number 1 or the string "1") and with or without a sku.
ShopElements ==
    {ProductObject(a, "undefined", "undefined", d) :
        a \in {"undefined", "n:1", "s:1"}, d \in {"undefined", "s:sku-1"}}

ShopLists == UNION {[1..n -> ShopElements] : n \in 0..MaxListLen}

\* The response is an array of products.
ShopInit ==
    /\ StoreInit
    /\ KeyIdle
    /\ HandlerIdle
    /\ AppIdle
    /\ PageIdle
    /\ payload \in {Payload("array", l, NoField, NoField) : l \in ShopLists}
    /\ catalog = NoCatalog
    /\ accessed = NotAccessed

\* The add-to-cart button of the row rendered last is pressed:
\* handleAddToCart(productKey, product) with the row's key and product.
ShopAddToCart ==
    /\ accessed.done
    /\ accessed.raised = {}
    /\ LET product == catalog.list[accessed.index]
           key == ShopRenderItemKey(product, IndexValue(accessed.index), now)
           q == QuantityOrZero(cartItems, key)
       IN  /\ q.nan \/ q.n < MaxQuantity
           /\ cartItems' = incrementItem(cartItems, key, product)
           /\ CartStep("incrementItem", key, product)
    /\ UNCHANGED <<handlerVars, appVars, pageVars>>

ShopNext ==
    \/ Normalize
    \/ \E index \in 1..MaxListLen : Access(index)
    \/ ShopAddToCart

ShopSpec == ShopInit /\ [][ShopNext]_vars

(* ---------------------------------------------------------------- claims *)

CartCall(op) == call.store = "cart" /\ call.op = op

FavoritesCall(op) == call.store = "favorites" /\ call.op = op

\* The same entries under the same keys, except that `key` is gone.
SameExcept(after, before, key) ==
    /\ DOMAIN after = (DOMAIN before) \ {key}
    /\ \A k \in DOMAIN after : after[k] = before[k]

\* The same entries under every key other than `key`.
OthersUntouched(after, before, key) ==
    /\ (DOMAIN after) \ {key} = (DOMAIN before) \ {key}
    /\ \A k \in (DOMAIN after) \ {key} : after[k] = before[k]

\* C1: every key present in the cart map has an integer quantity >= 1; no
\* entry with a quantity <= 0 (or a quantity that is no integer) is stored.
C1_QuantityAtLeastOne ==
    \A k \in DOMAIN cartItems :
        /\ ~cartItems[k].quantity.nan
        /\ cartItems[k].quantity.n >= 1

\* C2: after n >= 1 calls of incrementItem(k, p) that started with k absent,
\* with no decrementItem/removeItem of k and no clear in between, the stored
\* quantity of k is n.
C2_QuantityEqualsCallCount ==
    \A k \in Keys :
        incrementRun[k] >= 1 =>
            /\ HasOwn(cartItems, k)
            /\ cartItems[k].quantity = Num(incrementRun[k])

\* C2 witness: a key incremented at least twice from absent, with a call on
\* another key made last.
C2_Witness ==
    \E k \in Keys :
        /\ incrementRun[k] >= 2
        /\ call.store = "cart"
        /\ call.key \in Keys \ {k}

\* C3: decrementItem(k) on a key present with quantity q removes k when
\* q = 1, and keeps the entry with quantity q - 1 and the same product when
\* q > 1.
C3_DecrementPresent ==
    (CartCall("decrementItem") /\ HasOwn(cartBefore, call.key)) =>
        LET k == call.key
            q == cartBefore[k].quantity
        IN  /\ (~q.nan /\ q.n = 1) => ~HasOwn(cartItems, k)
            /\ (~q.nan /\ q.n > 1) =>
                   /\ HasOwn(cartItems, k)
                   /\ cartItems[k] = [product  |-> cartBefore[k].product,
                                      quantity |-> Num(q.n - 1)]

\* C3 witness: empty cart, incrementItem("sku-1", productA) twice, then
\* decrementItem("sku-1") leaves exactly {"sku-1": {productA, 1}}.
C3_Witness ==
    /\ CartCall("decrementItem")
    /\ call.key = "sku-1"
    /\ cartBefore = Put(EmptyItems, "sku-1",
                        [product |-> "productA", quantity |-> Num(2)])
    /\ cartItems = Put(EmptyItems, "sku-1",
                       [product |-> "productA", quantity |-> Num(1)])

\* C4: decrementItem(k) and removeItem(k) on a key that is not in the cart
\* map leave the whole cart unchanged.
C4_AbsentKeyIsNoOp ==
    ((CartCall("decrementItem") \/ CartCall("removeItem"))
        /\ ~HasOwn(cartBefore, call.key)) =>
        cartItems = cartBefore

\* C5: removeItem(k) on a present key removes k whatever its quantity and
\* leaves every other entry unchanged.
C5_RemovePresent ==
    (CartCall("removeItem") /\ HasOwn(cartBefore, call.key)) =>
        SameExcept(cartItems, cartBefore, call.key)

\* C5 witness: removeItem of a key held with quantity 2 while another key is
\* in the cart.
C5_Witness ==
    /\ CartCall("removeItem")
    /\ HasOwn(cartBefore, call.key)
    /\ cartBefore[call.key].quantity = Num(2)
    /\ (DOMAIN cartItems) \ {call.key} # {}

\* C6: incrementItem(k, p) inserts {p, 1} when k is absent; when k is present
\* with quantity q it stores q + 1 and the product p; the other entries are
\* unchanged.
C6_IncrementEffect ==
    CartCall("incrementItem") =>
        LET k == call.key
        IN  /\ HasOwn(cartItems, k)
            /\ cartItems[k].product = call.product
            /\ ~HasOwn(cartBefore, k) => cartItems[k].quantity = Num(1)
            /\ HasOwn(cartBefore, k) =>
                   cartItems[k].quantity = Plus1(cartBefore[k].quantity)
            /\ OthersUntouched(cartItems, cartBefore, k)

\* C6 witness: incrementItem of a present key with a product other than the
\* stored one, while another key is in the cart.
C6_Witness ==
    /\ CartCall("incrementItem")
    /\ HasOwn(cartBefore, call.key)
    /\ cartBefore[call.key].product # call.product
    /\ cartItems[call.key].quantity = Num(2)
    /\ (DOMAIN cartItems) \ {call.key} # {}

\* C7: clear() on either store yields the empty map whatever the contents
\* were, and clearing the result again leaves it empty.
C7_ClearYieldsEmpty ==
    /\ CartCall("clear") =>
           (cartItems = EmptyItems /\ clear(cartItems) = EmptyItems)
    /\ FavoritesCall("clear") =>
           (favoriteItems = EmptyItems
            /\ favoritesClear(favoriteItems) = EmptyItems)

\* C7 witness: a clear of a favorites map that held entries, made while the
\* cart holds entries.
C7_Witness ==
    /\ FavoritesCall("clear")
    /\ favoritesBefore # EmptyItems
    /\ cartItems # EmptyItems

\* C8: toggleItem(k, p) called twice in a row, for any payload p, returns
\* the membership of k in the favorites map to what it was before the first
\* call and leaves the membership of every other key unchanged.  (The first
\* call is the last step taken; the second is applied to its result.)
C8_ToggleTwiceRestoresMembership ==
    FavoritesCall("toggleItem") =>
        LET again == toggleItem(favoriteItems, call.key, call.product)
        IN  \A k \in Keys : HasOwn(again, k) <=> HasOwn(favoritesBefore, k)

\* C9: toggleItem(k, p) inserts k with value p when k is absent from the
\* favorites map, and removes k (storing nothing) when k is present.
C9_ToggleInsertsOrRemoves ==
    FavoritesCall("toggleItem") =>
        LET k == call.key
        IN  /\ ~HasOwn(favoritesBefore, k) =>
                   favoriteItems = Put(favoritesBefore, k, call.product)
            /\ HasOwn(favoritesBefore, k) =>
                   SameExcept(favoriteItems, favoritesBefore, k)

\* C10: favorites removeItem(k) deletes k whenever k is a key of the map,
\* whatever payload is stored under it, leaves the map unchanged when k is
\* not a key, and never affects another key.
C10_FavoritesRemove ==
    FavoritesCall("removeItem") =>
        LET k == call.key
        IN  /\ HasOwn(favoritesBefore, k) =>
                   SameExcept(favoriteItems, favoritesBefore, k)
            /\ ~HasOwn(favoritesBefore, k) => favoriteItems = favoritesBefore

\* C11: in every reachable favorites state, makeSelectIsFavorite(k) is true
\* exactly when k is a key of the map, so selectFavoriteCount equals the
\* number of keys reported as favorite.
C11_IsFavoriteIffKey ==
    /\ \A k \in Keys :
           makeSelectIsFavorite(favoriteItems, k) <=> HasOwn(favoriteItems, k)
    /\ selectFavoriteCount(favoriteItems) =
           Cardinality({k \in Keys : makeSelectIsFavorite(favoriteItems, k)})

\* C12: in every reachable cart state selectCartCount is the (integer) sum of
\* the quantities; it is 0 exactly when the map is empty, rises by 1 on every
\* incrementItem and falls by 1 on every decrementItem of a present key.
C12_CartCount ==
    LET count  == selectCartCount(cartItems)
        before == selectCartCount(cartBefore)
    IN  /\ ~count.nan
        /\ (count = Num(0)) <=> (cartItems = EmptyItems)
        /\ CartCall("incrementItem") => count = Plus1(before)
        /\ (CartCall("decrementItem") /\ HasOwn(cartBefore, call.key)) =>
               count = Minus1(before)

\* C13: for every key the three read views agree: makeSelectIsInCart(k) iff
\* k is a key of the map iff makeSelectQuantity(k) >= 1; for an absent key
\* the quantity view is 0.
C13_ViewsAgree ==
    \A k \in Keys :
        LET q == makeSelectQuantity(cartItems, k)
        IN  /\ makeSelectIsInCart(cartItems, k) <=> HasOwn(cartItems, k)
            /\ HasOwn(cartItems, k) <=> (~q.nan /\ q.n >= 1)
            /\ ~HasOwn(cartItems, k) => q = Num(0)

\* C15: no cart operation changes the favorites map and no favorites
\* operation changes the cart map.
C15_StoresIndependent ==
    /\ call.store = "cart" => favoriteItems = favoritesBefore
    /\ call.store = "favorites" => cartItems = cartBefore

\* C15 witness: a favorites call that changed the favorites map while the
\* cart held entries, the cart having been filled after the first favorite.
C15_Witness ==
    /\ call.store = "favorites"
    /\ favoriteItems # favoritesBefore
    /\ favoritesBefore # EmptyItems
    /\ cartItems # EmptyItems

\* The identifier candidates of a call in priority order, and the positions
\* of those that are present (neither null nor undefined).
Candidates == <<argProduct.id, argProduct.productId, argProduct.product_id,
                argProduct.sku, argFallback>>

PresentCandidates ==
    {i \in 1..5 : Candidates[i] # "undefined" /\ Candidates[i] # "null"}

FirstPresent == CHOOSE i \in PresentCandidates :
                    \A j \in PresentCandidates : i <= j

\* C17: getProductKey returns the string form of the first present value in
\* the order id, productId, product_id, sku, fallback (0 and "" count as
\* present), and the time-based "product-<now>" only when all five are
\* absent.
C17_FirstPresentWins ==
    (firstKey # NoKey /\ argProduct.kind = "object") =>
        IF PresentCandidates = {}
        THEN firstKey.key = "product-" \o ToString(firstKey.at)
        ELSE firstKey.key = String(Candidates[FirstPresent])

\* C17 witness: an identifier equal to 0 wins over a supplied fallback.
C17_Witness ==
    /\ firstKey # NoKey
    /\ argProduct.kind = "object"
    /\ argProduct.id = "undefined"
    /\ argProduct.productId = "n:0"
    /\ argFallback = "n:1"
    /\ firstKey.key = "0"

\* C18: two calls of getProductKey with the same product and fallback return
\* the same key whatever the clock reads, when the product has an identifier
\* or a fallback is supplied; the Shop list supplies the index, so the key
\* of keyExtractor and the key of renderItem for a row are equal.
C18_KeyDeterministic ==
    (secondKey # NoKey /\ argProduct.kind = "object") =>
        /\ PresentCandidates # {} => firstKey.key = secondKey.key
        /\ caller = "shop" => firstKey.key = secondKey.key

\* C18 witness: a Shop row whose product has no identifier, keyed twice at
\* different clock readings.
C18_Witness ==
    /\ secondKey # NoKey
    /\ caller = "shop"
    /\ argProduct.kind = "object"
    /\ PresentCandidates = {5}
    /\ firstKey.at # secondKey.at
    /\ firstKey.key = secondKey.key

\* C20: for every element of every list normalizeProducts returns (an
\* element may lack every field or be null), getProductKey, getProductTitle,
\* getProductPrice, getProductDescription and getProductImages return a
\* value and raise no error.
C20_AccessorsNeverRaise ==
    accessed.done => accessed.raised = {}

\* C19: within the catalog list shown by the Shop screen, two distinct
\* products at distinct positions never get the same key, and adding a
\* product to the cart leaves the quantity shown for every other product
\* (cartItems[productKey]?.quantity ?? 0) as it was.
C19_KeysUnique ==
    catalog.loaded =>
        LET list == catalog.list
            Key(i) == ShopRenderItemKey(list[i], IndexValue(i), now)
        IN  /\ \A i, j \in 1..Len(list) :
                   (i # j /\ list[i] # list[j]) => Key(i) # Key(j)
            /\ call.store = "cart" =>
                   \A j \in 1..Len(list) :
                       list[j] # call.product =>
                           QuantityOrZero(cartItems, Key(j))
                               = QuantityOrZero(cartBefore, Key(j))

\* One call applied to the items, and the calls of a sequence applied one
\* after the other.
ApplyCall(items, c) ==
    IF c.op = "incrementItem"
    THEN incrementItem(items, c.key, c.product)
    ELSE decrementItem(items, c.key)

RECURSIVE ApplyAll(_, _)
ApplyAll(calls, items) ==
    IF calls = <<>> THEN items
    ELSE ApplyAll(Tail(calls), ApplyCall(items, Head(calls)))

\* C14: no lost update.  The cart equals the calls the handlers issued since
\* the last render, applied one after the other in issue order to the items
\* rendered, whatever screens the handlers belong to.
C14_NoLostUpdate == cartItems = ApplyAll(issued, rendered)

\* Two calls on the same key from handlers of different screens, the second
\* made when the store no longer held what the handlers captured.
C14_Witness ==
    /\ Len(issued) = 2
    /\ issued[1].key = issued[2].key
    /\ issued[1].screen # issued[2].screen
    /\ issued[1].op = "incrementItem"
    /\ issued[2].op = "decrementItem"
    /\ HasOwn(cartItems, issued[1].key)
    /\ cartItems # rendered

\* C16: both maps are empty when the application starts; a key leaves the
\* cart only by removeItem of the key, clear, or decrementItem of the key at
\* quantity 1, and leaves the favorites only by removeItem or toggleItem of
\* the key or clear; an entry changes only by a call of its store on its
\* key; a login, a logout, a tab switch and a catalog load leave both maps
\* as they were.
C16_EntriesPersist ==
    /\ call = NoCall => (cartItems = EmptyItems /\ favoriteItems = EmptyItems)
    /\ \A k \in DOMAIN cartBefore :
           /\ ~HasOwn(cartItems, k) =>
                  \/ CartCall("removeItem") /\ call.key = k
                  \/ CartCall("clear")
                  \/ /\ CartCall("decrementItem") /\ call.key = k
                     /\ cartBefore[k].quantity = Num(1)
           /\ (HasOwn(cartItems, k) /\ cartItems[k] # cartBefore[k]) =>
                  call.store = "cart" /\ call.key = k
    /\ \A k \in DOMAIN favoritesBefore :
           /\ ~HasOwn(favoriteItems, k) =>
                  \/ FavoritesCall("removeItem") /\ call.key = k
                  \/ FavoritesCall("clear")
                  \/ FavoritesCall("toggleItem") /\ call.key = k
           /\ (HasOwn(favoriteItems, k)
                  /\ favoriteItems[k] # favoritesBefore[k]) =>
                  call.store = "favorites" /\ call.key = k
    /\ call.store = "app" =>
           (cartItems = cartBefore /\ favoriteItems = favoritesBefore)

\* A login, hence after a logout, with entries in both maps.
C16_Witness ==
    /\ call.store = "app"
    /\ call.op = "login"
    /\ cartItems # EmptyItems
    /\ favoriteItems # EmptyItems

\* C21: normalizeProducts gives the payload itself when it is a list, else
\* its `data` when that is a list, else its `items` when that is a list,
\* else the empty list; `data` wins over `items` when both are lists, and
\* `items` is given when `data` is present but no list.
C21_NormalizeOrder ==
    catalog.loaded =>
        LET isList == payload.type = "array"
            isObject == payload.type = "object"
            dataIsList == isObject /\ payload.data.isArray
            itemsIsList == isObject /\ payload.items.isArray
        IN  /\ isList => catalog.list = payload.elems
            /\ dataIsList => catalog.list = payload.data.elems
            /\ (itemsIsList /\ ~dataIsList) =>
                   catalog.list = payload.items.elems
            /\ (~isList /\ ~dataIsList /\ ~itemsIsList) =>
                   catalog.list = <<>>

\* A response whose `data` and `items` are different lists was normalized.
C21_Witness ==
    /\ catalog.loaded
    /\ payload.type = "object"
    /\ payload.data.isArray
    /\ payload.items.isArray
    /\ payload.data.elems # payload.items.elems
    /\ catalog.list = payload.data.elems
    /\ catalog.list # <<>>

\* The first number in a list of candidates, or `otherwise` when none of
\* them is a number.
FirstNumber(candidates, otherwise) ==
    LET numeric == {i \in DOMAIN candidates : IsNumber(candidates[i])}
    IN  IF numeric = {} THEN otherwise
        ELSE candidates[CHOOSE i \in numeric : \A j \in numeric : i <= j]

\* C22: getProductPrice returns the first of price, sellingPrice, mrp that
\* is a number, and null, never 0, when none of the three is a number.
C22_FirstNumericPrice ==
    result.accessor = "getProductPrice" =>
        LET candidates == <<subject.price, subject.sellingPrice, subject.mrp>>
        IN  /\ result.value = FirstNumber(candidates, "null")
            /\ (\A i \in 1..3 : ~IsNumber(candidates[i])) =>
                   (result.value = "null" /\ result.value # "n:0")

\* price, sellingPrice and mrp are three different numbers, and the price
\* was returned.
C22_Witness ==
    /\ result.accessor = "getProductPrice"
    /\ subject.price = "n:1"
    /\ subject.sellingPrice = "n:2"
    /\ subject.mrp = "n:0"
    /\ result.value = "n:1"

\* A candidate that is present and not the empty string.
NonEmpty(v) == v \notin {"undefined", "null", "s:"}

\* The first non-empty value in a list of candidates, or `otherwise`.
FirstNonEmpty(candidates, otherwise) ==
    LET usable == {i \in DOMAIN candidates : NonEmpty(candidates[i])}
    IN  IF usable = {} THEN otherwise
        ELSE candidates[CHOOSE i \in usable : \A j \in usable : i <= j]

\* C23: getProductTitle returns the first non-empty of name, productName,
\* title, and 'Product <index+1>' when none of them is present or
\* non-empty; the title is never empty.
C23_FirstNonEmptyTitle ==
    result.accessor = "getProductTitle" =>
        /\ result.value # "s:"
        /\ result.value =
               FirstNonEmpty(<<subject.name, subject.productName,
                               subject.title>>,
                             TitlePlaceholder(subjectIndex))

\* C24: getProductDescription returns the trimmed description if that is a
\* string with something left after trimming, else the trimmed
\* shortDescription under the same condition, else the placeholder; the
\* result is never empty nor made of whitespace only.
C24_TrimmedDescription ==
    result.accessor = "getProductDescription" =>
        LET Usable(v) == IsString(v) /\ Trim(v) # "s:"
        IN  /\ result.value =
                   IF Usable(subject.description)
                   THEN Trim(subject.description)
                   ELSE IF Usable(subject.shortDescription)
                   THEN Trim(subject.shortDescription)
                   ELSE DescriptionPlaceholder
            /\ result.value \notin {"s:", "s:  "}
            /\ Trim(result.value) = result.value

\* The description is whitespace only and the shortDescription, trimmed,
\* was returned.
C24_Witness ==
    /\ result.accessor = "getProductDescription"
    /\ subject.description = "s:  "
    /\ subject.shortDescription = "s: soft water "
    /\ result.value = "s:soft water"

\* The url a photos entry holds: the first non-empty of secure_url, url and
\* image_url, one per entry that is not null and holds one, in list order.
RECURSIVE HeldUrls(_)
HeldUrls(entries) ==
    IF entries = <<>> THEN <<>>
    ELSE LET entry == Head(entries)
             held == FirstNonEmpty(<<entry.secure_url, entry.url,
                                     entry.image_url>>, "none")
         IN  IF entry.kind = "null" \/ held = "none"
             THEN HeldUrls(Tail(entries))
             ELSE <<held>> \o HeldUrls(Tail(entries))

\* C25: getProductImages returns one url per photos entry that is not null
\* and holds a non-empty url; if there is none, the single primary image,
\* the first available of imageUrl, image, thumbnail; the empty list only
\* when there is neither.
C25_ImagesInOrder ==
    result.accessor = "getProductImages" =>
        LET held == IF subject.photos.isArray
                    THEN HeldUrls(subject.photos.entries) ELSE <<>>
            primary == FirstNonEmpty(<<subject.imageUrl, subject.image,
                                       subject.thumbnail>>, "none")
        IN  result.value = IF held # <<>> THEN held
                           ELSE IF primary # "none" THEN <<primary>>
                           ELSE <<>>

\* C26: when a load fails the error message is set, the product list is
\* left as it was, and the flag of the load (loading for the load on mount,
\* refreshing for a refresh) is false; a load that succeeds leaves its flag
\* false too; and as the fetches settle, a flag that is true becomes false.
C26_FailedLoad ==
    /\ [](loadEvent.kind = "rejected" =>
             /\ error = ErrorMessage
             /\ shopProducts = loadEvent.productsBefore)
    /\ [](loadEvent.kind \in {"rejected", "fulfilled"} =>
             IF loadEvent.isRefresh THEN ~refreshing ELSE ~loading)
    /\ (loading ~> ~loading)
    /\ (refreshing ~> ~refreshing)

\* A refresh failed when a list had been loaded, and the list is shown.
C26_Witness ==
    /\ loadEvent.kind = "rejected"
    /\ loadEvent.isRefresh
    /\ shopProducts # <<>>
    /\ error = ErrorMessage
    /\ ~refreshing

\* C27: once every load started has settled, the list shown is the one the
\* load started last answered with, and the error message is shown if and
\* only if that load failed.
C27_LastStartedWins ==
    (started >= 1 /\ pendingLoads = {}) =>
        LET last == outcomes[started]
        IN  /\ last.state = "fulfilled" => shopProducts = last.list
            /\ (error # "null") <=> (last.state = "rejected")

\* The addresses of a list that are marked default.
Defaults(addresses) == {i \in DOMAIN addresses : addresses[i].isDefault}

\* C28: in the profile edit form the address list is never empty and
\* exactly one address is marked default.
C28_OneDefaultAddress ==
    /\ Len(formState.addresses) >= 1
    /\ Cardinality(Defaults(formState.addresses)) = 1

\* The form passes handleSubmit's validation: first name, email and phone
\* are non-empty after trimming and some address has a non-empty line1 or
\* city after trimming.
Valid(form) ==
    /\ Trim(form.firstName) # "s:"
    /\ Trim(form.email) # "s:"
    /\ Trim(form.phone) # "s:"
    /\ \E i \in DOMAIN form.addresses :
           \/ Trim(form.addresses[i].line1) # "s:"
           \/ Trim(form.addresses[i].city) # "s:"

\* C29: handleSubmit replaces the saved user only when the form is valid;
\* the saved address list is then non-empty with exactly one default, the
\* first kept address that was flagged default, else the first kept one.
\* When the form is not valid an error is set and the saved user is as it
\* was.  Nothing else replaces the saved user.
C29_SubmitValidates ==
    /\ submitEvent.kind = "none" => user = submitEvent.userBefore
    /\ submitEvent.kind = "saved" =>
           /\ Valid(submitEvent.form)
           /\ Len(user.addresses) >= 1
           /\ Cardinality(Defaults(user.addresses)) = 1
           /\ LET kept == NormalizedAddresses(submitEvent.form.addresses)
              IN  /\ Len(user.addresses) = Len(kept)
                  /\ \A i \in DOMAIN kept :
                         user.addresses[i].isDefault <=>
                             IF Defaults(kept) = {} THEN i = 1
                             ELSE i \in Defaults(kept)
                                  /\ \A j \in Defaults(kept) : i <= j
           /\ formError = "null"
    /\ submitEvent.kind = "refused" =>
           /\ ~Valid(submitEvent.form)
           /\ formError # "null"
           /\ user = submitEvent.userBefore

\* A save of a form with a blank added address and, among the addresses
\* kept, none flagged default: the first kept one became the default.
C29_Witness ==
    /\ submitEvent.kind = "saved"
    /\ Len(user.addresses) < Len(submitEvent.form.addresses)
    /\ Defaults(NormalizedAddresses(submitEvent.form.addresses)) = {}
    /\ user.addresses[1].isDefault
    /\ user # submitEvent.userBefore

\* C30: On the Auth screen resendSeconds stays within 0..30; it changes only
\* when a send settles, which sets it to 30, or when the interval ticks,
\* which lowers it by exactly 1 while it is positive, so it stops at 0; the
\* resend link is disabled whenever resendSeconds > 0 or a send is awaited;
\* and a send that settles resets isSending to false.
C30_Step ==
    /\ Len(sends') < Len(sends) =>
           resendSeconds' = ResendDelay /\ isSending' = FALSE
    /\ resendSeconds' # resendSeconds =>
           \/ Len(sends') < Len(sends)
           \/ resendSeconds > 0 /\ resendSeconds' = resendSeconds - 1

C30_ResendCountdown ==
    /\ [](resendSeconds \in 0..ResendDelay)
    /\ []((resendSeconds > 0 \/ sends # <<>>) => ResendDisabled)
    /\ [][C30_Step]_vars

\* A send is still awaited after another settled and the interval ticked:
\* isSending is false again and the countdown alone disables the link.
C30_Witness ==
    /\ sends # <<>>
    /\ ~isSending
    /\ showOtpInput
    /\ resendSeconds = ResendDelay - 1

====
